---- MODULE Spec2Model ----
(***************************************************************************)
(* Model of the event-processing orchestrator of the Unified API service   *)
(* (universal-anon/unified-api/UnifiedAPIService.py): process_event and    *)
(* the private steps it sequences, with the tenant table, the cache Lambda *)
(* (validation cache, session cache, metrics counters), the Kinesis stream *)
(* and the three ML services as collaborators.                             *)
(*                                                                         *)
(* Every blocking collaborator call of a request is one atomic step;       *)
(* requests interleave between these steps. The model covers one hourly    *)
(* metrics window and no expiry of cache entries.                          *)
(***************************************************************************)
EXTENDS Integers, Sequences, FiniteSets, TLC

VARIABLES
    api_keys_table,    \* DynamoDB api-keys table: api key -> item, or NoItem
    clusters_table,    \* DynamoDB clusters table: the api keys that have a model item
    cache_available,   \* FALSE: the cache Lambda is down, no invocation of it succeeds
    cache_validation,  \* cache Lambda: api key -> cached validation_data, or Miss
    cache_metrics,     \* cache Lambda: api key -> total_events of the current hour
    cache_sessions,    \* cache Lambda: session records written by cache_session
    kinesis_stream,    \* records put on the Kinesis stream, in append order
    next_id,           \* id the next submitted request gets
    overlapped,        \* some request was submitted while another was in flight
    cache_failed,      \* some invocation of the cache Lambda raised or answered an error
    rq,                \* per request: position, inputs, locals, result, call counts
    cr,                \* per create_api_key call: position, inputs, locals, result
    rd,                \* per read call (insights, dashboard): position, inputs, result
    hd                 \* per lambda_handler invocation: position, event, call made, response

vars == <<api_keys_table, clusters_table, cache_available, cache_validation, cache_metrics, cache_sessions,
          kinesis_stream, next_id, overlapped, cache_failed, rq, cr, rd, hd>>

----------------------------------------------------------------------------
(* Bounds *)

MaxRequests == 2

Requests == 1..MaxRequests

MaxCreates == 2

MaxReads == 2

MaxInvocations == 1

Invocations == 1..MaxInvocations

Reads == 1..MaxReads

Creates == 1..MaxCreates

(* Inputs *)

ApiKeys == {"ak_test", "ak_trial", "ak_off", "ak_bogus"}

AnonIds == {"u1"}

Customers == {"c1", "c9"}

(* The four plans of _get_plan_configuration and one it does not know. *)
PlanTypes == {"trial", "basic", "pro", "enterprise", "gold"}

(* The rate limit stored for the tenants of the initial table. *)
TestRateLimit == 1

----------------------------------------------------------------------------
(* Python values *)

EmptyDict == [k \in {} |-> TRUE]

None == [none |-> TRUE]

Get(d, k, default) == IF k \in DOMAIN d THEN d[k] ELSE default

(* A request body that json.loads turned into something other than a dict  *)
(* (lambda_handler, lines 867 and 882, passes the body on as event_data):  *)
(* it has no .get, so event_data.get raises AttributeError.                *)
NotADict == [type |-> "list"]

IsDict(event_data) == event_data # NotADict

(* json.dumps / json.loads on a dict whose values JSON supports: the text *)
(* carries the dict, and loads gives it back.                              *)
JsonDumps(d) == [json |-> d]

JsonLoads(s) == s.json

(* class APIKeyStatus(Enum) *)
StatusValues == {"active", "inactive", "suspended", "trial"}

EnumOf(s) == [kind |-> "enum", value |-> s]

ACTIVE == EnumOf("active")

TRIAL == EnumOf("trial")

----------------------------------------------------------------------------
(* The tenant table and the clusters table *)

(* The clusters table holds, per api key, the model items that             *)
(* ClusteringService._store_model_metadata wrote; _check_existing_models   *)
(* looks for one of them. A tenant starts with or without one.             *)
InitialModels == SUBSET {"ak_trial"}

NoItem == [absent |-> TRUE]

(* hashlib.md5(customer_id.encode()).hexdigest()[:8], line 747 *)
Md5Hex8(customer_id) ==
    CASE customer_id = "c1" -> "a9f7e979"
      [] customer_id = "c9" -> "a3098322"

(* str(int(datetime.utcnow().timestamp()))[-6:], line 748: the calls fall  *)
(* in one second.                                                          *)
Timestamps == {"700000"}

(* str(uuid.uuid4()).replace('-', '')[:16], lines 746 and 750: what uuid4   *)
(* gives is not the code's to choose.                                      *)
UniqueParts == {"0f0e0d0c0b0a0908", "1f1e1d1c1b1a1918"}

(* _generate_api_key, lines 744-750 *)
GenerateApiKey(customer_id, timestamp, unique_part) ==
    "ak_" \o Md5Hex8(customer_id) \o "_" \o timestamp \o "_" \o unique_part

GeneratedKeys ==
    {GenerateApiKey(c, t, u) : c \in Customers, t \in Timestamps, u \in UniqueParts}

(* The keys an item of the api-keys table can have in a run. *)
TableKeys == ApiKeys \cup GeneratedKeys

TenantItem(k, cust, status, plan) ==
    [pk |-> k, gsi1pk |-> cust, status |-> status, plan_type |-> plan,
     rate_limit |-> TestRateLimit, features_enabled |-> {"basic_analytics"}]

InitialTable ==
    [k \in TableKeys |->
        CASE k = "ak_test"  -> TenantItem(k, "c1", "active", "basic")
          [] k = "ak_trial" -> TenantItem(k, "c2", "trial", "trial")
          [] k = "ak_off"   -> TenantItem(k, "c3", "suspended", "basic")
          [] OTHER          -> NoItem]

(* self.api_keys_table.get_item(Key={'pk': api_key}): the response carries *)
(* 'Item' only when the key is in the table; the call may raise.           *)
Raised == [raised |-> TRUE]

GetItemOutcomes == {"ok", "raise"}

GetItemResponse(k, outcome) ==
    IF outcome = "raise" THEN Raised
    ELSE IF api_keys_table[k] = NoItem THEN EmptyDict
    ELSE [Item |-> api_keys_table[k]]

(* APIKeyInfo built from the table item; APIKeyStatus(value) raises for a *)
(* value that is no member of the enum.                                    *)
APIKeyInfoFromItem(item) ==
    IF Get(item, "status", "inactive") \notin StatusValues THEN Raised
    ELSE [api_key          |-> item.pk,
          customer_id      |-> Get(item, "gsi1pk", ""),
          status           |-> EnumOf(Get(item, "status", "inactive")),
          plan_type        |-> Get(item, "plan_type", "trial"),
          rate_limit       |-> Get(item, "rate_limit", 1000),
          features_enabled |-> Get(item, "features_enabled", {})]

(* Faulty variant: an unreachable table is answered with a default active  *)
(* tenant.                                                                 *)
ResolveFromStore_FailOpen(response) ==
    IF response = Raised
    THEN [api_key |-> "", customer_id |-> "", status |-> ACTIVE,
          plan_type |-> "trial", rate_limit |-> 1000, features_enabled |-> {}]
    ELSE IF "Item" \notin DOMAIN response THEN None
    ELSE LET info == APIKeyInfoFromItem(response.Item)
         IN  IF info = Raised THEN None ELSE info

(* What _validate_api_key_async returns once the cache missed, from the    *)
(* get_item response: None when the call raised (except branch) or when    *)
(* the response holds no Item.                                             *)
ResolveFromStore(response) ==
    IF response = Raised THEN None
    ELSE IF "Item" \notin DOMAIN response THEN None
    ELSE LET info == APIKeyInfoFromItem(response.Item)
         IN  IF info = Raised THEN None ELSE info

(* dataclasses.asdict leaves the Enum member in place. *)
AsDict(api_key_info) == api_key_info

(* APIKeyInfo built from validation_data: the fields are taken as they   *)
(* are, the status stays whatever JSON carried.                            *)
APIKeyInfoFromCache(validation_data) ==
    IF validation_data = EmptyDict THEN None ELSE validation_data

(* Faulty variant: the status of the resolved tenant is not looked at. *)
ValidationPasses_AnyTenant(api_key_info) == api_key_info # None

(* Faulty variant: only a resolved tenant with a bad status is turned away. *)
ValidationPasses_NoneSlips(api_key_info) ==
    ~ /\ api_key_info # None
      /\ api_key_info.status \notin {ACTIVE, TRIAL}

(* process_event, line 130: the request goes on only with a tenant whose   *)
(* status is the enum member ACTIVE or TRIAL.                              *)
ValidationPasses(api_key_info) ==
    /\ api_key_info # None
    /\ api_key_info.status \in {ACTIVE, TRIAL}

----------------------------------------------------------------------------
(* The cache Lambda and _invoke_cache_function *)

Miss == [miss |-> TRUE]

CacheOutcomes == {"ok", "error", "fault", "raise"}

(* What an invocation can do now: nothing succeeds while the Lambda is down. *)
CacheOutcomesNow ==
    IF cache_available THEN CacheOutcomes ELSE CacheOutcomes \ {"ok"}

TotalEvents == <<"total_events">>

(* A json.dumps that would take every payload. *)
JsonSerializable_Always(payload) == TRUE

(* json.dumps raises TypeError on an Enum member; the only payload that    *)
(* carries one is cache_api_key's validation_data.                         *)
JsonSerializable(payload) ==
    ~ /\ "validation_data" \in DOMAIN payload
      /\ payload.validation_data.status.kind = "enum"

(* The Lambda's answer: a proxy response {statusCode, body} whose body is  *)
(* the JSON text of the operation's result; an error response; the        *)
(* payload of a function error, which has no body; or the invoke raises.   *)
CacheLambda(operation, payload, outcome) ==
    CASE outcome = "raise" -> Raised
      [] outcome = "error" ->
            [statusCode |-> 500, body |-> JsonDumps([error |-> "cache error"])]
      [] outcome = "fault" -> [errorMessage |-> "Task timed out"]
      [] OTHER ->
            [statusCode |-> 200,
             body |-> JsonDumps(
                CASE operation = "validate_api_key" ->
                        IF cache_validation[payload.api_key] = Miss
                        THEN [cached |-> FALSE]
                        ELSE [cached |-> TRUE,
                              validation_data |-> cache_validation[payload.api_key]]
                  [] operation = "get_metrics" ->
                        [metrics |-> cache_metrics[payload.api_key]]
                  [] OTHER -> [ok |-> TRUE])]

(* Faulty variant: the exception of a failed invocation gets out to the    *)
(* caller.                                                                 *)
InvokeCacheFunction_Reraise(operation, payload, outcome) ==
    IF ~JsonSerializable(payload) THEN Raised
    ELSE LET result == CacheLambda(operation, payload, outcome)
         IN  IF result = Raised THEN Raised
             ELSE IF "body" \in DOMAIN result THEN JsonLoads(result.body)
             ELSE result

(* lines 548-565: the payload is serialised, the Lambda invoked, and the   *)
(* response's 'body', when there is one, replaces the response; any        *)
(* exception gives {}.                                                     *)
InvokeCacheFunction(operation, payload, outcome) ==
    IF ~JsonSerializable(payload) THEN EmptyDict
    ELSE LET result == CacheLambda(operation, payload, outcome)
         IN  IF result = Raised THEN EmptyDict
             ELSE IF "body" \in DOMAIN result THEN JsonLoads(result.body)
             ELSE result

(* The Lambda ran the operation: the payload reached it and it succeeded.  *)
CacheLambdaRan(payload, outcome) == JsonSerializable(payload) /\ outcome = "ok"

AddCounters(old, delta) ==
    [d \in DOMAIN old \cup DOMAIN delta |-> Get(old, d, 0) + Get(delta, d, 0)]

(* Faulty variant: every tenant's events are counted under one key. *)
CounterOf_Shared(api_key) == "ak_test"

(* The key of the counters a request of api_key reads and adds to: the     *)
(* 'api_key' of the get_metrics and update_metrics payloads, lines 391 and *)
(* 537.                                                                    *)
CounterOf(api_key) == api_key

(* Faulty variant: a read that gives no statusCode 200 refuses the request. *)
CheckRateLimit_FailClosed(metrics_result, limit) ==
    IF "statusCode" \in DOMAIN metrics_result /\ metrics_result.statusCode = 200
    THEN LET metrics == Get(JsonLoads(Get(metrics_result, "body", JsonDumps(EmptyDict))),
                            "metrics", EmptyDict)
             event_count == Get(metrics, TotalEvents, 0)
         IN  event_count < limit
    ELSE FALSE

(* lines 386-406 on the dict _invoke_cache_function handed back. *)
CheckRateLimit(metrics_result, limit) ==
    IF "statusCode" \in DOMAIN metrics_result /\ metrics_result.statusCode = 200
    THEN LET metrics == Get(JsonLoads(Get(metrics_result, "body", JsonDumps(EmptyDict))),
                            "metrics", EmptyDict)
             event_count == Get(metrics, TotalEvents, 0)
         IN  event_count < limit
    ELSE TRUE

----------------------------------------------------------------------------
(* The ML services, as process_event sees them *)

PyStr == [type |-> "str"]

PyDict == [type |-> "dict"]

PyFloat(v) == [type |-> "float", value |-> v]

(* extract_features returns the feature map, or {} when the user has no    *)
(* events or anything inside raised.                                       *)
Features == [event_count |-> 1]

FeatureResults == {Features, EmptyDict}

(* predict_cluster returns the assignment, or a default-valued one when    *)
(* there are no models, the features are unusable or anything raised.      *)
ClusterAssignment == [cluster_id |-> "cluster_0", is_outlier |-> FALSE]

ClusterDefault == [status |-> "no_models", cluster_id |-> "default"]

(* line 188: what predict_cluster returns when anything inside it raised. *)
ClusterError == [status |-> "error", cluster_id |-> "default"]

ClusterResults == {ClusterAssignment, ClusterDefault, ClusterError}

(* predict_intent_scores returns the prediction, or the default scores.    *)
(* Each key is given with the Python type of its value (scores in tenths). *)
PredictionResult ==
    [anon_id |-> PyStr, api_key |-> PyStr, intent_scores |-> PyDict,
     intent_probabilities |-> PyDict, ensemble_score |-> PyFloat(7),
     primary_intent |-> PyStr, confidence |-> PyFloat(9),
     prediction_time |-> PyStr, model_versions |-> PyDict]

DefaultScores ==
    [anon_id |-> PyStr, intent_scores |-> PyDict,
     intent_probabilities |-> PyDict, ensemble_score |-> PyFloat(5),
     primary_intent |-> PyStr, confidence |-> PyFloat(5),
     prediction_time |-> PyStr, status |-> PyStr]

IntentResults == {PredictionResult, DefaultScores}

(* max(d.items(), key=lambda x: x[1]): '>' between two values raises       *)
(* TypeError unless both are numbers or both are strings.                  *)
PyComparable(x, y) == x.type = y.type /\ x.type # "dict"

MaxRaises(d) == \E a, b \in DOMAIN d : a # b /\ ~PyComparable(d[a], d[b])

MaxByValue(d) ==
    IF MaxRaises(d) THEN Raised
    ELSE [key |-> CHOOSE k \in DOMAIN d :
                     \A j \in DOMAIN d : d[j].value <= d[k].value]

(* lines 518-534: the metrics dict of one event, its keys as tuples        *)
(* (total_events, platform_<p>, cluster_<id>, intent_<name>); Raised when  *)
(* building it raises, which _update_real_time_metrics answers with {}.    *)
BuildMetrics(event_data, ml_results) ==
    IF ~IsDict(event_data) THEN Raised ELSE
    LET base == [d \in {TotalEvents, <<"unique_sessions">>, <<"unique_users">>,
                        <<"platform", Get(event_data, "platform", "unknown")>>,
                        <<"event", Get(event_data, "eventName", "unknown")>>} |->
                    CASE d = <<"unique_sessions">> ->
                            IF "sessionId" \in DOMAIN event_data THEN 1 ELSE 0
                      [] d = <<"unique_users">> ->
                            IF "anonId" \in DOMAIN event_data THEN 1 ELSE 0
                      [] OTHER -> 1]
        cluster_id == Get(Get(ml_results, "cluster", EmptyDict), "cluster_id", "")
        with_cluster == IF cluster_id # ""
                        THEN AddCounters(base, [d \in {<<"cluster", cluster_id>>} |-> 1])
                        ELSE base
        intent == Get(ml_results, "intent_scores", EmptyDict)
    IN  IF intent = EmptyDict THEN with_cluster
        ELSE LET primary == MaxByValue(intent)
             IN  IF primary = Raised THEN Raised
                 ELSE AddCounters(with_cluster,
                                  [d \in {<<"intent", primary.key>>} |-> 1])

(* Faulty variant: the partition key also depends on how long the stream *)
(* is.                                                                    *)
PartitionKey_Sequenced(api_key, event_data) ==
    <<api_key, Get(event_data, "anonId", "unknown"), Len(kinesis_stream)>>

(* PartitionKey of put_record, line 445 *)
PartitionKey(api_key, event_data) == <<api_key, Get(event_data, "anonId", "unknown")>>

----------------------------------------------------------------------------
(* Requests *)

NoCalls ==
    [validate_cache |-> 0, get_item |-> 0, cache_api_key |-> 0, rate_limit |-> 0,
     provision |-> 0, put_record |-> 0, cache_session |-> 0,
     extract_features |-> 0, predict_cluster |-> 0, predict_intent_scores |-> 0,
     update_metrics |-> 0]

Called(r, what) ==
    [rq[r].calls EXCEPT ![what] = @ + 1]

Idle ==
    [pc |-> "idle", api_key |-> "", event_data |-> EmptyDict,
     api_key_info |-> None, get_item |-> "none", rate_check |-> None,
     ml_results |-> EmptyDict, cluster_features |-> None,
     intent_features |-> None, hung |-> "none", result |-> None,
     calls |-> NoCalls]

IdleRead ==
    [pc |-> "idle", op |-> "", api_key |-> "", api_key_info |-> None,
     collaborators |-> {}, result |-> None]

IdleInvocation ==
    [pc |-> "idle", event |-> None, op |-> "none", request |-> 0,
     exception |-> FALSE, response |-> None]

IdleCreate ==
    [pc |-> "idle", customer_id |-> "", plan_type |-> "", api_key_info |-> None,
     put |-> "none", result |-> None]

InFlight(r) == rq[r].pc \notin {"idle", "done", "raised"}

(* The call of request r is not one that never returns. *)
Returns(r, call) == rq[r].hung # call

(* EventProcessingResult *)
Result(success, ml_results, metrics, processing_time_ms, error) ==
    [success            |-> success,
     features_extracted |-> Get(ml_results, "features", EmptyDict),
     cluster_assignment |-> Get(ml_results, "cluster", EmptyDict),
     intent_scores      |-> Get(ml_results, "intent_scores", EmptyDict),
     real_time_metrics  |-> metrics,
     processing_time_ms |-> processing_time_ms,
     error              |-> error]

(* datetime.utcnow() - start_time (lines 174, 189), on a clock that ticks  *)
(* once for every step of the request counted in calls.                    *)
ProcessingTime(calls) ==
    calls.validate_cache + calls.get_item + calls.cache_api_key
      + calls.rate_limit + calls.provision + calls.put_record
      + calls.cache_session + calls.extract_features + calls.predict_cluster
      + calls.predict_intent_scores + calls.update_metrics

InvalidKeyError == "Invalid or inactive API key"

RateLimitError == "Rate limit exceeded"

NoError == "None"

(* The service object after __init__, before any request, beside a cache  *)
(* Lambda that holds the given validation data.                            *)
ConstructedWith(validation) ==
    /\ api_keys_table = InitialTable
    /\ clusters_table \in InitialModels
    /\ cache_validation = validation
    /\ cache_metrics = [k \in ApiKeys |-> EmptyDict]
    /\ cache_sessions = {}
    /\ kinesis_stream = <<>>
    /\ next_id = 1
    /\ overlapped = FALSE
    /\ cache_failed = FALSE
    /\ rq = [r \in Requests |-> Idle]
    /\ cr = [c \in Creates |-> IdleCreate]
    /\ rd = [d \in Reads |-> IdleRead]
    /\ hd = [h \in Invocations |-> IdleInvocation]

(* The service object after __init__, the cache being empty. *)
Constructed == ConstructedWith([k \in ApiKeys |-> Miss])

(* The validation_data the cache holds for a tenant: the JSON object of    *)
(* its record, in which the status is the status value as a string.        *)
CachedValidationData(item) ==
    [api_key          |-> item.pk,
     customer_id      |-> item.gsi1pk,
     status           |-> [kind |-> "str", value |-> item.status],
     plan_type        |-> item.plan_type,
     rate_limit       |-> item.rate_limit,
     features_enabled |-> item.features_enabled]

(* The service beside a cache that holds every tenant of the table. *)
InitWarmCache ==
    /\ ConstructedWith([k \in ApiKeys |->
                           IF InitialTable[k] = NoItem THEN Miss
                           ELSE CachedValidationData(InitialTable[k])])
    /\ cache_available = TRUE

Init == Constructed /\ cache_available = TRUE

(* The same service with the cache Lambda down for good. *)
InitCacheDown == Constructed /\ cache_available = FALSE

(* A caller submits process_event(api_key, event_data) with one of the     *)
(* given bodies.                                                           *)
SubmitCall(k, event_data) ==
    /\ next_id \in Requests
    /\ rq' = [rq EXCEPT ![next_id] =
                [Idle EXCEPT !.pc = "validate", !.api_key = k,
                             !.event_data = event_data]]
    /\ overlapped' = (overlapped \/ \E q \in Requests : InFlight(q))
    /\ next_id' = next_id + 1

SubmitOneOf(bodies) ==
    /\ \E k \in ApiKeys, event_data \in bodies : SubmitCall(k, event_data)
    /\ UNCHANGED <<hd, rd, cr, api_keys_table, clusters_table, cache_available,
                   cache_validation, cache_metrics, cache_sessions,
                   kinesis_stream, cache_failed>>

(* The body is an event dict. *)
Submit == SubmitOneOf({[anonId |-> a, platform |-> "web"] : a \in AnonIds})

(* The body is no dict. *)
SubmitMalformed == SubmitOneOf({NotADict})

(* process_event lines 187-201: an exception that reaches the boundary     *)
(* becomes a failed result with empty enrichment, the elapsed time and the *)
(* error text. Building it calls event_data.get (lines 193-194): when      *)
(* event_data is no dict that raises inside the handler, and process_event *)
(* ends by raising.                                                        *)
Escaped(r, error, calls) ==
    IF IsDict(rq[r].event_data)
    THEN [rq[r] EXCEPT !.pc = "done", !.calls = calls,
                       !.result = Result(FALSE, EmptyDict, EmptyDict,
                                         ProcessingTime(calls), error)]
    ELSE [rq[r] EXCEPT !.pc = "raised", !.calls = calls]

(* process_event lines 129-141, once _validate_api_key_async returned; the *)
(* rejection is built with event_data.get (lines 133-134) and              *)
(* processing_time_ms=0.                                                   *)
Validated(r, api_key_info, calls) ==
    IF ValidationPasses(api_key_info)
    THEN [rq[r] EXCEPT !.pc = "rate_limit", !.api_key_info = api_key_info,
                       !.calls = calls]
    ELSE IF IsDict(rq[r].event_data)
    THEN [rq[r] EXCEPT !.pc = "done", !.api_key_info = api_key_info,
                       !.calls = calls,
                       !.result = Result(FALSE, EmptyDict, EmptyDict, 0,
                                         InvalidKeyError)]
    ELSE [Escaped(r, "AttributeError", calls) EXCEPT !.api_key_info = api_key_info]

(* _validate_api_key_async, lines 350-354: the cache is asked first. *)
ValidateCache(r) ==
    /\ rq[r].pc = "validate"
    /\ \E outcome \in CacheOutcomesNow :
          LET cached_result == InvokeCacheFunction("validate_api_key",
                                   [api_key |-> rq[r].api_key], outcome)
              calls == Called(r, "validate_cache")
          IN  /\ rq' = [rq EXCEPT ![r] =
                  IF cached_result = Raised
                  THEN Validated(r, None, calls)   \* lines 382-384
                  ELSE IF Get(cached_result, "cached", FALSE)
                  THEN Validated(r, APIKeyInfoFromCache(
                                       Get(cached_result, "validation_data", EmptyDict)),
                                 calls)
                  ELSE [rq[r] EXCEPT !.pc = "get_item", !.calls = calls]]
             /\ cache_failed' = (cache_failed \/ outcome # "ok")
    /\ UNCHANGED <<hd, rd, cr, api_keys_table, clusters_table, cache_available,
                   cache_validation, cache_metrics, cache_sessions,
                   kinesis_stream, next_id, overlapped>>

(* lines 356-372 and 382-384: the table is read on a miss. *)
GetItem(r) ==
    /\ rq[r].pc = "get_item"
    /\ \E outcome \in GetItemOutcomes :
          LET api_key_info == ResolveFromStore(GetItemResponse(rq[r].api_key, outcome))
              calls == Called(r, "get_item")
          IN  rq' = [rq EXCEPT ![r] =
                  IF api_key_info = None
                  THEN [Validated(r, None, calls) EXCEPT !.get_item = outcome]
                  ELSE [rq[r] EXCEPT !.pc = "cache_api_key", !.get_item = outcome,
                                     !.api_key_info = api_key_info, !.calls = calls]]
    /\ UNCHANGED <<hd, rd, cr, api_keys_table, clusters_table, cache_available,
                   cache_validation, cache_metrics, cache_sessions,
                   kinesis_stream, next_id, overlapped, cache_failed>>

(* lines 374-380: the record is handed to the cache, then returned. *)
CacheApiKey(r) ==
    /\ rq[r].pc = "cache_api_key"
    /\ \E outcome \in CacheOutcomesNow :
          LET payload == [api_key |-> rq[r].api_key,
                          validation_data |-> AsDict(rq[r].api_key_info)]
              written == InvokeCacheFunction("cache_api_key", payload, outcome)
          IN  /\ cache_validation' =
                     IF CacheLambdaRan(payload, outcome)
                     THEN [cache_validation EXCEPT ![payload.api_key] =
                                                       payload.validation_data]
                     ELSE cache_validation
              /\ cache_failed' =
                     (cache_failed \/ (JsonSerializable(payload) /\ outcome # "ok"))
              /\ rq' = [rq EXCEPT ![r] =
                     Validated(r, IF written = Raised THEN None   \* lines 382-384
                                  ELSE rq[r].api_key_info,
                               Called(r, "cache_api_key"))]
    /\ UNCHANGED <<hd, rd, cr, api_keys_table, clusters_table, cache_available,
                   cache_metrics, cache_sessions, kinesis_stream,
                   next_id, overlapped>>

(* process_event lines 143-159 on the answer of _check_rate_limit: a      *)
(* refused request returns at once; an admitted one goes to provisioning   *)
(* when the tenant's status is TRIAL, else to ingestion.                   *)
RateLimited(r, admitted) ==
    IF ~admitted
    THEN IF IsDict(rq[r].event_data)
         THEN [rq[r] EXCEPT !.pc = "done",
                            !.result = Result(FALSE, EmptyDict, EmptyDict, 0,
                                              RateLimitError)]
         ELSE Escaped(r, "AttributeError", Called(r, "rate_limit"))
    ELSE IF rq[r].api_key_info.status = TRIAL
    THEN [rq[r] EXCEPT !.pc = "provision"]
    ELSE [rq[r] EXCEPT !.pc = "ingest"]

(* _check_rate_limit, lines 386-406: one get_metrics read of the cache.    *)
(* rate_check keeps whether the read succeeded ("ok" or "failed") and what *)
(* the counter held then.                                                  *)
RateLimit(r) ==
    /\ rq[r].pc = "rate_limit"
    /\ IF rq[r].api_key_info = None
       THEN \* api_key_info.rate_limit raises AttributeError inside the try
            /\ rq' = [rq EXCEPT ![r] = Escaped(r, "AttributeError", rq[r].calls)]
            /\ cache_failed' = cache_failed
       ELSE \E outcome \in CacheOutcomesNow :
          LET payload == [api_key |-> CounterOf(rq[r].api_key), time_window |-> "hour"]
              metrics_result == InvokeCacheFunction("get_metrics", payload, outcome)
              admitted == CheckRateLimit(metrics_result, rq[r].api_key_info.rate_limit)
          IN  /\ rq' = [rq EXCEPT ![r] =
                    [RateLimited(r, admitted) EXCEPT
                        !.calls = Called(r, "rate_limit"),
                        !.rate_check =
                            [outcome     |-> IF outcome = "ok" THEN "ok"
                                             ELSE "failed",
                             event_count |-> Get(cache_metrics[payload.api_key],
                                                 TotalEvents, 0),
                             admitted    |-> admitted]]]
              /\ cache_failed' = (cache_failed \/ outcome # "ok")
    /\ UNCHANGED <<hd, rd, cr, api_keys_table, clusters_table, cache_available,
                   cache_validation, cache_metrics, cache_sessions,
                   kinesis_stream, next_id, overlapped>>

(* _check_existing_models, lines 808-825: one query of the clusters table *)
(* for a model item of the api key; a query that raises counts as no       *)
(* models.                                                                 *)
ExistingModelsOutcomes == {"ok", "raise"}

CheckExistingModels(api_key, outcome) ==
    IF outcome = "raise" THEN FALSE ELSE api_key \in clusters_table

(* _auto_provision_models, lines 408-428: the models are looked up and,    *)
(* when there are none, the two provisioning tasks are started and         *)
(* awaited. Nothing raised gets out.                                       *)
AutoProvision(r) ==
    /\ rq[r].pc = "provision"
    /\ \E outcome \in ExistingModelsOutcomes :
          LET existing_models == CheckExistingModels(rq[r].api_key, outcome)
          IN  rq' = [rq EXCEPT ![r] =
                  [rq[r] EXCEPT
                      !.pc = IF existing_models THEN "ingest" ELSE "provisioning",
                      !.calls = Called(r, "provision")]]
    /\ UNCHANGED <<hd, rd, cr, api_keys_table, clusters_table, cache_available,
                   cache_validation, cache_metrics, cache_sessions,
                   kinesis_stream, next_id, overlapped, cache_failed>>

(* asyncio.gather of _provision_clustering_models and                      *)
(* _provision_intent_models (lines 827-847) returns: both only sleep, and  *)
(* neither writes to the clusters table.                                   *)
ProvisionDone(r) ==
    /\ rq[r].pc = "provisioning"
    /\ Returns(r, "provisioning")
    /\ rq' = [rq EXCEPT ![r].pc = "ingest"]
    /\ UNCHANGED <<hd, rd, cr, api_keys_table, clusters_table, cache_available,
                   cache_validation, cache_metrics, cache_sessions,
                   kinesis_stream, next_id, overlapped, cache_failed>>

(* _ingest_event_to_stream, lines 430-451: one put_record; a failure is    *)
(* logged and the request goes on. With an event_data that is no dict,     *)
(* building the record raises before put_record is called.                 *)
PutRecordOutcomes == {"ok", "raise"}

(* Faulty variant: the record is put a second time. *)
PutRecord_Twice(stream, record, outcome) ==
    IF outcome = "ok" THEN Append(Append(stream, record), record) ELSE stream

(* self.kinesis_client.put_record, lines 443-447: called once, with no     *)
(* retry; the record is on the stream when the call succeeded.             *)
PutRecord(stream, record, outcome) ==
    IF outcome = "ok" THEN Append(stream, record) ELSE stream

(* Faulty variant: the exception of put_record gets out of the step. *)
IngestReturn_Reraise(outcome) == IF outcome = "raise" THEN Raised ELSE None

(* lines 450-451: the step returns None whether put_record raised or not. *)
IngestReturn(outcome) == None

IngestEventToStream(r) ==
    /\ rq[r].pc = "ingest"
    /\ IF ~IsDict(rq[r].event_data)
       THEN /\ kinesis_stream' = kinesis_stream
            /\ rq' = [rq EXCEPT ![r].pc = "session"]
       ELSE \E outcome \in PutRecordOutcomes :
          /\ kinesis_stream' =
                PutRecord(kinesis_stream,
                          [PartitionKey |-> PartitionKey(rq[r].api_key, rq[r].event_data),
                           request      |-> r],
                          outcome)
          /\ rq' = [rq EXCEPT ![r] =
                IF IngestReturn(outcome) = Raised
                THEN Escaped(r, "put_record failed", Called(r, "put_record"))
                ELSE [rq[r] EXCEPT !.pc = "session",
                                   !.calls = Called(r, "put_record")]]
    /\ UNCHANGED <<hd, rd, cr, api_keys_table, clusters_table, cache_available,
                   cache_validation, cache_metrics, cache_sessions,
                   next_id, overlapped, cache_failed>>

(* _cache_session_data, lines 453-468; with an event_data that is no dict, *)
(* building session_data raises before the cache is invoked.               *)
CacheSessionData(r) ==
    /\ rq[r].pc = "session"
    /\ IF ~IsDict(rq[r].event_data)
       THEN /\ UNCHANGED <<cache_sessions, cache_failed>>
            /\ rq' = [rq EXCEPT ![r].pc = "features"]
       ELSE
       /\ \E outcome \in CacheOutcomesNow :
          LET session_data == [session_id |-> Get(rq[r].event_data, "sessionId", "None"),
                               anon_id    |-> Get(rq[r].event_data, "anonId", "None"),
                               api_key    |-> rq[r].api_key]
              payload == [session_data |-> session_data]
          IN  /\ cache_sessions' = IF CacheLambdaRan(payload, outcome)
                                   THEN cache_sessions \cup {session_data}
                                   ELSE cache_sessions
              /\ cache_failed' = (cache_failed \/ outcome # "ok")
       /\ rq' = [rq EXCEPT ![r] =
                 [rq[r] EXCEPT !.pc = "features", !.calls = Called(r, "cache_session")]]
    /\ UNCHANGED <<hd, rd, cr, api_keys_table, clusters_table, cache_available,
                   cache_validation, cache_metrics, kinesis_stream,
                   next_id, overlapped>>

(* Faulty variant: the scorers are run whatever extraction returned. *)
HasFeatures_Always(features) == TRUE

(* line 486, "if features": an empty feature map is falsy. *)
HasFeatures(features) == features # EmptyDict

(* The dict lines 510-512 give when anything in the pipeline raised. *)
EmptyMlResults ==
    [features |-> EmptyDict, cluster |-> EmptyDict, intent_scores |-> EmptyDict]

(* _process_with_ml_pipeline, lines 476-486: extract_features runs first  *)
(* and is waited for; without features both scorers are skipped. With an   *)
(* event_data that is no dict, line 473 raises and nothing is called.      *)
ExtractFeatures(r) ==
    /\ rq[r].pc = "features"
    /\ Returns(r, "extract_features")
    /\ IF ~IsDict(rq[r].event_data)
       THEN rq' = [rq EXCEPT ![r] =
                      [rq[r] EXCEPT !.pc = "metrics", !.ml_results = EmptyMlResults]]
       ELSE \E features \in FeatureResults :
          rq' = [rq EXCEPT ![r] =
                    [rq[r] EXCEPT
                        !.calls = Called(r, "extract_features"),
                        !.pc = IF HasFeatures(features) THEN "scorers" ELSE "metrics",
                        !.ml_results =
                            IF HasFeatures(features)
                            THEN [features |-> features]
                            ELSE [features |-> features, cluster |-> EmptyDict,
                                  intent_scores |-> EmptyDict]]]
    /\ UNCHANGED <<hd, rd, cr, api_keys_table, clusters_table, cache_available,
                   cache_validation, cache_metrics, cache_sessions,
                   kinesis_stream, next_id, overlapped, cache_failed>>

(* lines 488-508: the two scorers run side by side on the features; the    *)
(* pipeline returns when both have.                                        *)
Scored(r, ml_results) ==
    [rq[r] EXCEPT !.ml_results = ml_results,
                  !.pc = IF {"cluster", "intent_scores"} \subseteq DOMAIN ml_results
                         THEN "metrics" ELSE "scorers"]

(* Faulty variant: the scorers are submitted together with extraction. *)
ScorersSubmitted_Eagerly(r) == rq[r].pc \in {"features", "scorers"}

(* lines 484-497: the scorers are submitted after feature_future.result()  *)
(* returned features.                                                      *)
ScorersSubmitted(r) == rq[r].pc = "scorers"

(* The features argument of the two submits: the local 'features'. *)
FeaturesArgument(r) == Get(rq[r].ml_results, "features", None)

PredictCluster(r) ==
    /\ ScorersSubmitted(r)
    /\ Returns(r, "predict_cluster")
    /\ "cluster" \notin DOMAIN rq[r].ml_results
    /\ \E cluster_result \in ClusterResults :
          rq' = [rq EXCEPT ![r] =
                    [Scored(r, [k \in DOMAIN rq[r].ml_results \cup {"cluster"} |->
                                   IF k = "cluster" THEN cluster_result
                                   ELSE rq[r].ml_results[k]])
                        EXCEPT !.calls = Called(r, "predict_cluster"),
                               !.cluster_features = FeaturesArgument(r)]]
    /\ UNCHANGED <<hd, rd, cr, api_keys_table, clusters_table, cache_available,
                   cache_validation, cache_metrics, cache_sessions,
                   kinesis_stream, next_id, overlapped, cache_failed>>

PredictIntentScores(r) ==
    /\ ScorersSubmitted(r)
    /\ Returns(r, "predict_intent_scores")
    /\ "intent_scores" \notin DOMAIN rq[r].ml_results
    /\ \E intent_result \in IntentResults :
          rq' = [rq EXCEPT ![r] =
                    [Scored(r, [k \in DOMAIN rq[r].ml_results \cup {"intent_scores"} |->
                                   IF k = "intent_scores" THEN intent_result
                                   ELSE rq[r].ml_results[k]])
                        EXCEPT !.calls = Called(r, "predict_intent_scores"),
                               !.intent_features = FeaturesArgument(r)]]
    /\ UNCHANGED <<hd, rd, cr, api_keys_table, clusters_table, cache_available,
                   cache_validation, cache_metrics, cache_sessions,
                   kinesis_stream, next_id, overlapped, cache_failed>>

(* Faulty variant: the exception raised while building the metrics gets out. *)
UpdateMetricsReturn_Reraise(built) == built

(* _update_real_time_metrics, lines 542-546: the metrics dict is handed    *)
(* back; when building or sending it raised, {} is.                        *)
UpdateMetricsReturn(built) == IF built = Raised THEN EmptyDict ELSE built

(* process_event lines 171-201 on what _update_real_time_metrics gave:     *)
(* the elapsed time is taken and the result built with event_data.get      *)
(* (lines 178-179).                                                        *)
Responded(r, metrics, calls) ==
    IF metrics = Raised
    THEN Escaped(r, "TypeError", calls)
    ELSE IF ~IsDict(rq[r].event_data)
    THEN Escaped(r, "AttributeError", calls)
    ELSE [rq[r] EXCEPT !.pc = "done", !.calls = calls,
                       !.result = Result(TRUE, rq[r].ml_results, metrics,
                                         ProcessingTime(calls), NoError)]

(* _update_real_time_metrics, lines 514-546: the metrics dict is built and *)
(* sent as one update_metrics increment; when building it raises, nothing  *)
(* is sent. The request then returns.                                      *)
UpdateRealTimeMetrics(r) ==
    /\ rq[r].pc = "metrics"
    /\ LET built == BuildMetrics(rq[r].event_data, rq[r].ml_results)
       IN  \E outcome \in CacheOutcomesNow :
              LET payload == [api_key |-> CounterOf(rq[r].api_key), metrics |-> built]
                  sent == built # Raised
              IN  /\ cache_metrics' =
                        IF sent /\ CacheLambdaRan(payload, outcome)
                        THEN [cache_metrics EXCEPT ![payload.api_key] =
                                                       AddCounters(@, built)]
                        ELSE cache_metrics
                  /\ cache_failed' = (cache_failed \/ (sent /\ outcome # "ok"))
                  /\ rq' = [rq EXCEPT ![r] =
                               Responded(r, UpdateMetricsReturn(built),
                                         Called(r, "update_metrics"))]
    /\ UNCHANGED <<hd, rd, cr, api_keys_table, clusters_table, cache_available,
                   cache_validation, cache_sessions, kinesis_stream,
                   next_id, overlapped>>

----------------------------------------------------------------------------

(* The calls process_event waits for with no timeout of its own set on the *)
(* wait: future.result() of the three ML calls (lines 484, 499, 500) and   *)
(* the gather of the provisioning tasks (line 425).                        *)
AwaitedCalls(r) ==
    CASE rq[r].pc = "provisioning" -> {"provisioning"}
      [] rq[r].pc = "features"     -> {"extract_features"}
      [] rq[r].pc = "scorers"      ->
            {c \in {"predict_cluster", "predict_intent_scores"} :
                rq[r].calls[c] = 0}
      [] OTHER -> {}

(* One awaited call of request r hangs: it never returns and never raises. *)
(* At most one call hangs in a run.                                        *)
NeverReturns(r) ==
    /\ \A q \in Requests : rq[q].hung = "none"
    /\ \E call \in AwaitedCalls(r) : rq' = [rq EXCEPT ![r].hung = call]
    /\ UNCHANGED <<hd, rd, cr, api_keys_table, clusters_table, cache_available,
                   cache_validation, cache_metrics, cache_sessions,
                   kinesis_stream, next_id, overlapped, cache_failed>>

----------------------------------------------------------------------------
(* create_api_key *)

(* _get_plan_configuration, lines 752-773: a plan type that is not in the  *)
(* table gets the trial configuration.                                     *)
GetPlanConfiguration(plan_type) ==
    CASE plan_type = "basic" ->
            [rate_limit |-> 10000,
             features   |-> {"basic_analytics", "intent_scoring", "clustering"}]
      [] plan_type = "pro" ->
            [rate_limit |-> 100000,
             features   |-> {"basic_analytics", "intent_scoring", "clustering",
                             "advanced_features"}]
      [] plan_type = "enterprise" ->
            [rate_limit |-> 1000000,
             features   |-> {"basic_analytics", "intent_scoring", "clustering",
                             "advanced_features", "custom_models"}]
      [] OTHER ->
            [rate_limit |-> 1000,
             features   |-> {"basic_analytics", "intent_scoring"}]

(* Faulty variant: every new tenant starts active. *)
StatusForPlan_AlwaysActive(plan_type) == ACTIVE

(* line 314 *)
StatusForPlan(plan_type) == IF plan_type = "trial" THEN TRIAL ELSE ACTIVE

(* The APIKeyInfo of lines 311-320 *)
NewAPIKeyInfo(api_key, customer_id, plan_type) ==
    LET plan_config == GetPlanConfiguration(plan_type)
    IN  [api_key          |-> api_key,
         customer_id      |-> customer_id,
         status           |-> StatusForPlan(plan_type),
         plan_type        |-> plan_type,
         rate_limit       |-> plan_config.rate_limit,
         features_enabled |-> plan_config.features]

(* The Item of put_item, lines 778-787 *)
ItemOf(api_key_info) ==
    [pk               |-> api_key_info.api_key,
     gsi1pk           |-> api_key_info.customer_id,
     status           |-> api_key_info.status.value,
     plan_type        |-> api_key_info.plan_type,
     rate_limit       |-> api_key_info.rate_limit,
     features_enabled |-> api_key_info.features_enabled]

PutItemOutcomes == {"ok", "raise"}

(* put_item has no ConditionExpression (lines 777-788): it replaces the    *)
(* item that has the same pk.                                              *)
PutItem(table, item, outcome) ==
    IF outcome = "ok" THEN [table EXCEPT ![item.pk] = item] ELSE table

(* Faulty variant: a failed put_item is logged and not raised again. *)
StoreReturn_Swallowed(outcome) == None

(* _store_api_key, lines 789-791: a failed put_item is logged and raised   *)
(* again.                                                                  *)
StoreReturn(outcome) == IF outcome = "raise" THEN Raised ELSE None

(* The dict of lines 330-338 *)
CreatedResponse(api_key, plan_type) ==
    LET plan_config == GetPlanConfiguration(plan_type)
    IN  [api_key          |-> api_key,
         status           |-> "created",
         plan_type        |-> plan_type,
         rate_limit       |-> plan_config.rate_limit,
         features_enabled |-> plan_config.features,
         trial_expires    |-> IF plan_type = "trial"
                              THEN [days_from_now |-> 14] ELSE None,
         setup_complete   |-> TRUE]

(* lines 340-342 *)
ErrorResponse == [error |-> "put_item failed"]

(* create_api_key(customer_id, plan_type) from the call to its first       *)
(* suspension, lines 304-328: the key is generated, the record built and   *)
(* put in the table; when the put raised the call returns the error, else  *)
(* it waits in _auto_provision_infrastructure.                             *)
CreateApiKey(c) ==
    /\ cr[c].pc = "idle"
    /\ \A b \in Creates : b < c => cr[b].pc # "idle"
    /\ \E customer_id \in Customers, plan_type \in PlanTypes,
          timestamp \in Timestamps, unique_part \in UniqueParts,
          outcome \in PutItemOutcomes :
          LET api_key == GenerateApiKey(customer_id, timestamp, unique_part)
              api_key_info == NewAPIKeyInfo(api_key, customer_id, plan_type)
              started == [cr[c] EXCEPT !.customer_id = customer_id,
                                       !.plan_type = plan_type,
                                       !.api_key_info = api_key_info,
                                       !.put = outcome]
          IN  /\ api_keys_table' = PutItem(api_keys_table, ItemOf(api_key_info), outcome)
              /\ cr' = [cr EXCEPT ![c] =
                          IF StoreReturn(outcome) = Raised
                          THEN [started EXCEPT !.pc = "done", !.result = ErrorResponse]
                          ELSE [started EXCEPT !.pc = "provision"]]
    /\ UNCHANGED <<hd, rd, rq, clusters_table, cache_available, cache_validation,
                   cache_metrics, cache_sessions, kinesis_stream, next_id,
                   overlapped, cache_failed>>

(* _auto_provision_infrastructure, lines 793-805, has slept and returned;  *)
(* create_api_key returns the dict of lines 330-338.                       *)
InfrastructureProvisioned(c) ==
    /\ cr[c].pc = "provision"
    /\ cr' = [cr EXCEPT ![c] =
                [cr[c] EXCEPT !.pc = "done",
                              !.result = CreatedResponse(cr[c].api_key_info.api_key,
                                                         cr[c].plan_type)]]
    /\ UNCHANGED <<hd, rd, rq, api_keys_table, clusters_table, cache_available,
                   cache_validation, cache_metrics, cache_sessions,
                   kinesis_stream, next_id, overlapped, cache_failed>>

----------------------------------------------------------------------------
(* get_user_insights and get_real_time_dashboard *)

ReadOps == {"get_user_insights", "get_real_time_dashboard"}

(* The tasks each read path gathers, lines 222-227 and 266-271. *)
Collaborators(op) ==
    IF op = "get_user_insights"
    THEN {"_get_user_features", "_get_user_cluster_info",
          "_get_user_intent_scores", "_get_user_session_summary"}
    ELSE {"_get_cached_metrics", "_get_cluster_summary",
          "_get_intent_distribution", "_get_platform_breakdown"}

(* lines 218-219 and 262-263: the read goes on unless validation gave      *)
(* None.                                                                   *)
ReadValidated(d, api_key_info) ==
    IF api_key_info = None
    THEN [rd[d] EXCEPT !.pc = "done", !.api_key_info = api_key_info,
                       !.result = [error |-> "Invalid API key"]]
    ELSE [rd[d] EXCEPT !.pc = "gather", !.api_key_info = api_key_info]

(* The call op(api_key, ...) of a read path begins as read d. *)
SubmitReadCall(d, op, k) ==
    /\ rd[d].pc = "idle"
    /\ \A b \in Reads : b < d => rd[b].pc # "idle"
    /\ rd' = [rd EXCEPT ![d] = [IdleRead EXCEPT !.pc = "validate", !.op = op,
                                                 !.api_key = k]]

(* A caller calls one of the two read paths. *)
SubmitRead(d) ==
    /\ \E op \in ReadOps, k \in ApiKeys : SubmitReadCall(d, op, k)
    /\ UNCHANGED <<hd, rq, cr, api_keys_table, clusters_table, cache_available,
                   cache_validation, cache_metrics, cache_sessions,
                   kinesis_stream, next_id, overlapped, cache_failed>>

(* _validate_api_key_async, lines 350-354, called at line 217 or 261. *)
ReadValidateCache(d) ==
    /\ rd[d].pc = "validate"
    /\ \E outcome \in CacheOutcomesNow :
          LET cached_result == InvokeCacheFunction("validate_api_key",
                                   [api_key |-> rd[d].api_key], outcome)
          IN  /\ rd' = [rd EXCEPT ![d] =
                  IF cached_result = Raised
                  THEN ReadValidated(d, None)
                  ELSE IF Get(cached_result, "cached", FALSE)
                  THEN ReadValidated(d, APIKeyInfoFromCache(
                                          Get(cached_result, "validation_data", EmptyDict)))
                  ELSE [rd[d] EXCEPT !.pc = "get_item"]]
              /\ cache_failed' = (cache_failed \/ outcome # "ok")
    /\ UNCHANGED <<hd, rq, cr, api_keys_table, clusters_table, cache_available,
                   cache_validation, cache_metrics, cache_sessions,
                   kinesis_stream, next_id, overlapped>>

(* _validate_api_key_async, lines 356-372 and 382-384 *)
ReadGetItem(d) ==
    /\ rd[d].pc = "get_item"
    /\ \E outcome \in GetItemOutcomes :
          LET api_key_info == ResolveFromStore(GetItemResponse(rd[d].api_key, outcome))
          IN  rd' = [rd EXCEPT ![d] =
                  IF api_key_info = None
                  THEN ReadValidated(d, None)
                  ELSE [rd[d] EXCEPT !.pc = "cache_api_key",
                                     !.api_key_info = api_key_info]]
    /\ UNCHANGED <<hd, rq, cr, api_keys_table, clusters_table, cache_available,
                   cache_validation, cache_metrics, cache_sessions,
                   kinesis_stream, next_id, overlapped, cache_failed>>

(* _validate_api_key_async, lines 374-380 *)
ReadCacheApiKey(d) ==
    /\ rd[d].pc = "cache_api_key"
    /\ \E outcome \in CacheOutcomesNow :
          LET payload == [api_key |-> rd[d].api_key,
                          validation_data |-> AsDict(rd[d].api_key_info)]
              written == InvokeCacheFunction("cache_api_key", payload, outcome)
          IN  /\ cache_validation' =
                     IF CacheLambdaRan(payload, outcome)
                     THEN [cache_validation EXCEPT ![payload.api_key] =
                                                       payload.validation_data]
                     ELSE cache_validation
              /\ cache_failed' =
                     (cache_failed \/ (JsonSerializable(payload) /\ outcome # "ok"))
              /\ rd' = [rd EXCEPT ![d] =
                     ReadValidated(d, IF written = Raised THEN None
                                      ELSE rd[d].api_key_info)]
    /\ UNCHANGED <<hd, rq, cr, api_keys_table, clusters_table, cache_available,
                   cache_metrics, cache_sessions, kinesis_stream,
                   next_id, overlapped>>

(* lines 221-243 and 265-286: the four tasks are gathered, each answering  *)
(* its own failures with {}, and the dict is returned.                     *)
ReadGather(d) ==
    /\ rd[d].pc = "gather"
    /\ rd' = [rd EXCEPT ![d] =
                [rd[d] EXCEPT !.pc = "done",
                              !.collaborators = Collaborators(rd[d].op),
                              !.result = [api_key |-> rd[d].api_key]]]
    /\ UNCHANGED <<hd, rq, cr, api_keys_table, clusters_table, cache_available,
                   cache_validation, cache_metrics, cache_sessions,
                   kinesis_stream, next_id, overlapped, cache_failed>>

(* Any step of a read path once it was called. *)
ReadRun(d) ==
    \/ ReadValidateCache(d)
    \/ ReadGetItem(d)
    \/ ReadCacheApiKey(d)
    \/ ReadGather(d)

ReadStep(d) ==
    \/ SubmitRead(d)
    \/ ReadRun(d)

----------------------------------------------------------------------------
(* lambda_handler *)

Paths == {"/v1/events", "/v1/insights", "/v1/dashboard", "/v1/health"}

Methods == {"GET", "POST"}

(* A body that is no JSON text. *)
InvalidJson == [text |-> "{anonId"]

(* json.loads(s) returns for a JSON text and raises for any other text,    *)
(* and for None.                                                           *)
Parses(s) == "json" \in DOMAIN s

(* event['headers']: absent from the request (API Gateway sends null),     *)
(* without an x-api-key, or with one.                                      *)
HandlerHeaders ==
    {None, EmptyDict} \cup {[n \in {"x-api-key"} |-> k] : k \in ApiKeys}

(* event['body']: an event dict as JSON, a JSON list, a text that is no    *)
(* JSON, or null.                                                          *)
HandlerBodies ==
    {JsonDumps([anonId |-> a, platform |-> "web"]) : a \in AnonIds}
        \cup {JsonDumps(NotADict), InvalidJson, None}

(* event['queryStringParameters'] *)
QueryStrings ==
    {None, EmptyDict} \cup {[n \in {"anon_id"} |-> a] : a \in AnonIds}

Events ==
    [path : Paths, httpMethod : Methods, headers : HandlerHeaders,
     body : HandlerBodies, queryStringParameters : QueryStrings]

(* not d.get(k): the dict has no k (the values drawn here are non-empty    *)
(* strings).                                                               *)
Falsy(d, k) == k \notin DOMAIN d

Respond(statusCode, body) ==
    [kind |-> "respond", exception |-> FALSE,
     response |-> [statusCode |-> statusCode, body |-> JsonDumps(body)]]

(* lines 948-953: the outer handler answers any exception with 500. *)
Respond500(e) ==
    [kind |-> "respond", exception |-> TRUE,
     response |-> [statusCode |-> 500, body |-> JsonDumps([error |-> e])]]

Call(op, api_key, arg) ==
    [kind |-> "call", op |-> op, api_key |-> api_key, arg |-> arg]

(* lines 862-946, up to the call of the service or the response given      *)
(* without one. Line 867 parses the body before line 868 reads the         *)
(* headers; .get on headers or queryStringParameters that are None raises  *)
(* AttributeError.                                                         *)
Route(event) ==
    LET path    == event.path
        method  == event.httpMethod
        headers == event.headers
        qs      == event.queryStringParameters
    IN  IF path = "/v1/events" /\ method = "POST"
        THEN IF ~Parses(event.body) THEN Respond500("json.loads")
             ELSE IF headers = None THEN Respond500("AttributeError")
             ELSE IF Falsy(headers, "x-api-key")
             THEN Respond(401, [error |-> "API key required"])
             ELSE Call("process_event", headers["x-api-key"],
                       JsonLoads(event.body))
        ELSE IF path = "/v1/insights" /\ method = "GET"
        THEN IF headers = None \/ qs = None THEN Respond500("AttributeError")
             ELSE IF \/ Falsy(headers, "x-api-key")
                     \/ Falsy(qs, "anon_id")
             THEN Respond(400, [error |-> "API key and anon_id required"])
             ELSE Call("get_user_insights", headers["x-api-key"],
                       qs["anon_id"])
        ELSE IF path = "/v1/dashboard" /\ method = "GET"
        THEN IF headers = None THEN Respond500("AttributeError")
             ELSE IF Falsy(headers, "x-api-key")
             THEN Respond(401, [error |-> "API key required"])
             ELSE Call("get_real_time_dashboard", headers["x-api-key"], None)
        ELSE Respond(404, [error |-> "Not found"])

(* lambda_handler(event, context) runs up to its response or to the call   *)
(* of the service (lines 882, 908, 930).                                   *)
HandlerInvoke(h) ==
    /\ hd[h].pc = "idle"
    /\ \E event \in Events :
          LET routed == Route(event)
          IN  IF routed.kind = "respond"
              THEN /\ hd' = [hd EXCEPT ![h] =
                             [IdleInvocation EXCEPT
                                 !.pc = "done", !.event = event,
                                 !.exception = routed.exception,
                                 !.response = routed.response]]
                   /\ UNCHANGED <<rq, rd, next_id, overlapped>>
              ELSE IF routed.op = "process_event"
              THEN /\ SubmitCall(routed.api_key, routed.arg)
                   /\ hd' = [hd EXCEPT ![h] =
                             [IdleInvocation EXCEPT
                                 !.pc = "await", !.event = event,
                                 !.op = routed.op, !.request = next_id]]
                   /\ UNCHANGED rd
              ELSE \E d \in Reads :
                     /\ SubmitReadCall(d, routed.op, routed.api_key)
                     /\ hd' = [hd EXCEPT ![h] =
                               [IdleInvocation EXCEPT
                                   !.pc = "await", !.event = event,
                                   !.op = routed.op, !.request = d]]
                     /\ UNCHANGED <<rq, next_id, overlapped>>
    /\ UNCHANGED <<cr, api_keys_table, clusters_table, cache_available,
                   cache_validation, cache_metrics, cache_sessions,
                   kinesis_stream, cache_failed>>

(* run_until_complete returned or raised (lines 882-892, 908-918,          *)
(* 930-940): process_event's result gives 200 or 400, a read path's dict   *)
(* gives 200, and an exception reaches line 948.                           *)
HandlerResponse(h) ==
    IF hd[h].op = "process_event"
    THEN IF rq[hd[h].request].pc = "raised"
         THEN Respond500("AttributeError")
         ELSE Respond(IF rq[hd[h].request].result.success THEN 200 ELSE 400,
                      rq[hd[h].request].result)
    ELSE Respond(200, rd[hd[h].request].result)

HandlerReturn(h) ==
    /\ hd[h].pc = "await"
    /\ IF hd[h].op = "process_event"
       THEN rq[hd[h].request].pc \in {"done", "raised"}
       ELSE rd[hd[h].request].pc = "done"
    /\ hd' = [hd EXCEPT ![h] =
                [hd[h] EXCEPT !.pc = "done",
                              !.exception = HandlerResponse(h).exception,
                              !.response = HandlerResponse(h).response]]
    /\ UNCHANGED <<rq, rd, cr, api_keys_table, clusters_table, cache_available,
                   cache_validation, cache_metrics, cache_sessions,
                   kinesis_stream, next_id, overlapped, cache_failed>>

(* Any step of process_event for request r. *)
RequestStep(r) ==
    \/ ValidateCache(r)
    \/ GetItem(r)
    \/ CacheApiKey(r)
    \/ RateLimit(r)
    \/ AutoProvision(r)
    \/ ProvisionDone(r)
    \/ IngestEventToStream(r)
    \/ CacheSessionData(r)
    \/ ExtractFeatures(r)
    \/ PredictCluster(r)
    \/ PredictIntentScores(r)
    \/ UpdateRealTimeMetrics(r)

Next ==
    \/ Submit
    \/ \E r \in Requests : RequestStep(r)

NextAnyBody ==
    \/ Next
    \/ SubmitMalformed

NextTenants ==
    \E c \in Creates : CreateApiKey(c) \/ InfrastructureProvisioned(c)

NextReads == \E d \in Reads : ReadStep(d)

NextHandler ==
    \/ \E h \in Invocations : HandlerInvoke(h) \/ HandlerReturn(h)
    \/ \E r \in Requests : RequestStep(r)
    \/ \E d \in Reads : ReadRun(d)

NextWithHang ==
    \/ Next
    \/ \E r \in Requests : NeverReturns(r)

Spec == Init /\ [][Next]_vars

(* The service run with the cache Lambda unavailable throughout. *)
SpecCacheDown == InitCacheDown /\ [][Next]_vars

(* The service called with event dicts and with bodies that are no dict. *)
SpecAnyBody == Init /\ [][NextAnyBody]_vars

(* The service taking create_api_key calls. *)
SpecTenants == Init /\ [][NextTenants]_vars

(* The service taking get_user_insights and get_real_time_dashboard calls. *)
SpecReads == Init /\ [][NextReads]_vars

(* The service whose cache already holds the tenants' validation data. *)
SpecWarmCache == InitWarmCache /\ [][Next]_vars

(* The service behind lambda_handler. *)
SpecHandler == Init /\ [][NextHandler]_vars

(* The service where one awaited call may hang. *)
SpecWithHang == Init /\ [][NextWithHang]_vars

----------------------------------------------------------------------------
(* Properties *)

Done(r) == rq[r].pc = "done"

Item(r) == api_keys_table[rq[r].api_key]

KnownKey(r) == rq[r].pc # "idle" /\ Item(r) # NoItem

ActiveOrTrialTenant(r) == KnownKey(r) /\ Item(r).status \in {"active", "trial"}

Appended(r) == \E i \in 1..Len(kinesis_stream) : kinesis_stream[i].request = r

RateChecked(r) == rq[r].rate_check # None

(* The steps that come after validation were not entered. *)
NothingAfterValidation(r) ==
    /\ rq[r].calls.rate_limit = 0
    /\ rq[r].calls.provision = 0
    /\ rq[r].calls.put_record = 0
    /\ rq[r].calls.cache_session = 0
    /\ rq[r].calls.extract_features = 0
    /\ rq[r].calls.predict_cluster = 0
    /\ rq[r].calls.predict_intent_scores = 0
    /\ rq[r].calls.update_metrics = 0
    /\ ~Appended(r)

(* The steps that come after the rate-limit check were not entered. *)
NothingAfterRateLimit(r) ==
    /\ rq[r].calls.provision = 0
    /\ rq[r].calls.put_record = 0
    /\ rq[r].calls.cache_session = 0
    /\ rq[r].calls.extract_features = 0
    /\ rq[r].calls.predict_cluster = 0
    /\ rq[r].calls.predict_intent_scores = 0
    /\ rq[r].calls.update_metrics = 0
    /\ ~Appended(r)

AuthRejected(r) ==
    Done(r) /\ ~rq[r].result.success /\ rq[r].result.error = InvalidKeyError

RateLimitRejected(r) ==
    Done(r) /\ ~rq[r].result.success /\ rq[r].result.error = RateLimitError

(* C1: put_record is called for a request, and a record of it is on the    *)
(* stream, only when in that request the key resolved to a tenant whose    *)
(* status is active or trial and the rate-limit check admitted it.         *)
C1_AppendOnlyAfterAdmission ==
    \A r \in Requests :
        (rq[r].calls.put_record > 0 \/ Appended(r)) =>
            /\ ActiveOrTrialTenant(r)
            /\ rq[r].api_key_info # None
            /\ rq[r].api_key_info.status \in {ACTIVE, TRIAL}
            /\ RateChecked(r)
            /\ rq[r].rate_check.admitted

C1_Witness ==
    \E r, q \in Requests :
        /\ Appended(r) /\ Done(r)
        /\ AuthRejected(q) /\ KnownKey(q)

(* C2: a request whose key is not in the tenant table ends with            *)
(* success=false and the auth reason, and never enters the rate-limit      *)
(* check, provisioning, the append, session caching, the three scorers or  *)
(* the metrics update.                                                     *)
C2_UnknownKeyRejected ==
    \A r \in Requests :
        (rq[r].pc # "idle" /\ Item(r) = NoItem) =>
            /\ NothingAfterValidation(r)
            /\ Done(r) => AuthRejected(r)

C2_Witness ==
    \E r \in Requests :
        /\ AuthRejected(r)
        /\ Item(r) = NoItem
        /\ rq[r].calls.get_item = 1
        /\ rq[r].get_item = "ok"

(* C3 (as claimed): a request of a valid tenant whose total_events counter *)
(* was at or above its rate limit when the request read it ends with       *)
(* success=false and the rate-limit reason, without append, scoring or     *)
(* provisioning.                                                           *)
C3_OverLimitRejected ==
    \A r \in Requests :
        ( /\ Done(r)
          /\ RateChecked(r)
          /\ rq[r].rate_check.outcome = "ok"
          /\ rq[r].rate_check.event_count >= rq[r].api_key_info.rate_limit ) =>
            /\ RateLimitRejected(r)
            /\ NothingAfterRateLimit(r)

(* C4: a request of a tenant that is in the table with status active or    *)
(* trial, read from the table, whose counter was below the limit when      *)
(* checked, ends with success=true, whatever ingestion, session caching,   *)
(* scoring, the metrics update and provisioning did.                       *)
C4_ValidTenantSucceeds ==
    \A r \in Requests :
        ( /\ Done(r)
          /\ ActiveOrTrialTenant(r)
          /\ rq[r].get_item = "ok"
          /\ RateChecked(r)
          /\ rq[r].rate_check.event_count < Item(r).rate_limit ) =>
            /\ rq[r].result.success
            /\ rq[r].result.error = NoError

C4_Witness ==
    \E r \in Requests :
        /\ Done(r) /\ ActiveOrTrialTenant(r) /\ rq[r].result.success
        /\ rq[r].rate_check.event_count < Item(r).rate_limit
        /\ ~Appended(r)
        /\ rq[r].result.features_extracted # EmptyDict
        /\ rq[r].result.real_time_metrics = EmptyDict
        /\ cache_failed

(* C5 (as claimed): with the metrics store available, a tenant's           *)
(* total_events counter never exceeds the tenant's rate limit.             *)
C5_CounterWithinLimit ==
    ~cache_failed =>
        \A k \in ApiKeys :
            api_keys_table[k] # NoItem =>
                Get(cache_metrics[k], TotalEvents, 0) <= api_keys_table[k].rate_limit

(* C6 (as claimed): when TestRateLimit + 1 requests of one valid tenant    *)
(* run one after another, with every collaborator available and scoring    *)
(* producing results, the first TestRateLimit succeed and the last one is  *)
(* refused for the rate limit.                                             *)
C6_SequentialCalls ==
    ( /\ TestRateLimit + 1 \in Requests
      /\ ~overlapped
      /\ ~cache_failed
      /\ \A r \in 1..(TestRateLimit + 1) :
            /\ Done(r)
            /\ ActiveOrTrialTenant(r)
            /\ rq[r].api_key = rq[1].api_key
            /\ rq[r].get_item = "ok"
            /\ rq[r].calls.put_record > 0 => Appended(r)
            /\ rq[r].calls.extract_features > 0 =>
                   rq[r].ml_results.features # EmptyDict ) =>
        /\ \A r \in 1..TestRateLimit : rq[r].result.success
        /\ RateLimitRejected(TestRateLimit + 1)

(* C7 (as claimed): when the counter read succeeds, _check_rate_limit      *)
(* answers true exactly when the counter is below the limit.               *)
C7_AdmitIffBelowLimit ==
    \A r \in Requests :
        (RateChecked(r) /\ rq[r].rate_check.outcome = "ok") =>
            (rq[r].rate_check.admitted <=>
                rq[r].rate_check.event_count < rq[r].api_key_info.rate_limit)

(* C8: when the counter read raises or answers an error, the request is    *)
(* admitted, is not refused for the rate limit and goes on to the append,  *)
(* also for a tenant whose counter is at or above its limit.               *)
C8_FailOpen ==
    \A r \in Requests :
        (RateChecked(r) /\ rq[r].rate_check.outcome = "failed") =>
            /\ rq[r].rate_check.admitted
            /\ ~RateLimitRejected(r)
            /\ rq[r].pc \in {"provision", "provisioning", "ingest"}
                  \/ rq[r].calls.put_record = 1

C8_Witness ==
    \E r \in Requests :
        /\ RateChecked(r)
        /\ rq[r].rate_check.outcome = "failed"
        /\ rq[r].rate_check.event_count >= rq[r].api_key_info.rate_limit
        /\ Appended(r)

(* C9: when get_item raises, the request ends with success=false and the   *)
(* auth reason and enters none of the later steps, also for a key that is  *)
(* in the table with status active.                                        *)
C9_FailClosed ==
    \A r \in Requests :
        rq[r].get_item = "raise" =>
            /\ AuthRejected(r)
            /\ rq[r].api_key_info = None
            /\ NothingAfterValidation(r)

C9_Witness ==
    \E r \in Requests :
        /\ rq[r].get_item = "raise"
        /\ KnownKey(r) /\ Item(r).status = "active"
        /\ AuthRejected(r)

(* C10 (as claimed): with the cache available and requests run one after   *)
(* another, the tenant table is read at most once for an existing key.     *)
C10_OneStoreReadPerKey ==
    (~overlapped /\ ~cache_failed) =>
        \A k \in ApiKeys :
            api_keys_table[k] # NoItem =>
                Cardinality({r \in Requests :
                                rq[r].api_key = k /\ rq[r].calls.get_item > 0}) <= 1

(* The request got past the named step. *)
PastSessionCaching(r) == rq[r].pc \in {"features", "scorers", "metrics", "done"}

(* C11: with the cache Lambda down, every validation read is a miss that   *)
(* goes on to the tenant table, no cache write leaves anything behind, a   *)
(* key that is in the table resolves to the tenant of its item, session    *)
(* caching is followed by the later steps, and a request of an active or   *)
(* trial tenant read from the table ends with success=true.                *)
C11_CacheDownTolerated ==
    /\ cache_validation = [k \in ApiKeys |-> Miss]
    /\ cache_sessions = {}
    /\ cache_metrics = [k \in ApiKeys |-> EmptyDict]
    /\ \A r \in Requests :
          /\ rq[r].calls.validate_cache = 1 =>
                 (rq[r].pc = "get_item" \/ rq[r].calls.get_item = 1)
          /\ (KnownKey(r) /\ rq[r].get_item = "ok") =>
                 rq[r].api_key_info = APIKeyInfoFromItem(Item(r))
          /\ rq[r].calls.cache_session = 1 =>
                 (PastSessionCaching(r) /\ (Done(r) => rq[r].result.success))
          /\ (Done(r) /\ ActiveOrTrialTenant(r) /\ rq[r].get_item = "ok") =>
                 (rq[r].result.success /\ rq[r].result.error = NoError)

C11_Witness ==
    \E r \in Requests :
        /\ ~cache_available
        /\ Done(r) /\ ActiveOrTrialTenant(r) /\ rq[r].result.success
        /\ rq[r].calls.validate_cache = 1
        /\ rq[r].calls.cache_api_key = 1
        /\ rq[r].calls.cache_session = 1
        /\ rq[r].calls.update_metrics = 1

(* C12: a scorer is called only after extract_features of the same request *)
(* has returned, and the features it is called with are the map that       *)
(* extraction returned.                                                    *)
C12_ScorersAfterExtraction ==
    \A r \in Requests :
        /\ rq[r].calls.predict_cluster > 0 =>
              /\ rq[r].calls.extract_features = 1
              /\ "features" \in DOMAIN rq[r].ml_results
              /\ rq[r].cluster_features = rq[r].ml_results.features
        /\ rq[r].calls.predict_intent_scores > 0 =>
              /\ rq[r].calls.extract_features = 1
              /\ "features" \in DOMAIN rq[r].ml_results
              /\ rq[r].intent_features = rq[r].ml_results.features
        /\ rq[r].calls.extract_features = 0 =>
              (rq[r].cluster_features = None /\ rq[r].intent_features = None)

C12_Witness ==
    \E r \in Requests :
        /\ rq[r].calls.extract_features = 1
        /\ rq[r].calls.predict_cluster = 1
        /\ rq[r].calls.predict_intent_scores = 1
        /\ rq[r].cluster_features = Features
        /\ rq[r].intent_features = Features

(* C13: when extract_features returns no features (the user has no events, *)
(* or extraction failed), neither scorer is called in that request, the    *)
(* cluster assignment and the intent scores are empty, and the request     *)
(* ends with success=true.                                                 *)
C13_NoFeaturesNoScoring ==
    \A r \in Requests :
        ( /\ rq[r].calls.extract_features = 1
          /\ rq[r].ml_results.features = EmptyDict ) =>
            /\ rq[r].calls.predict_cluster = 0
            /\ rq[r].calls.predict_intent_scores = 0
            /\ rq[r].pc \in {"metrics", "done"}
            /\ rq[r].ml_results.cluster = EmptyDict
            /\ rq[r].ml_results.intent_scores = EmptyDict
            /\ Done(r) =>
                  /\ rq[r].result.success
                  /\ rq[r].result.features_extracted = EmptyDict
                  /\ rq[r].result.cluster_assignment = EmptyDict
                  /\ rq[r].result.intent_scores = EmptyDict

C13_Witness ==
    \E r \in Requests :
        /\ Done(r) /\ rq[r].result.success
        /\ rq[r].calls.extract_features = 1
        /\ rq[r].ml_results.features = EmptyDict
        /\ rq[r].calls.update_metrics = 1

(* C14 (as claimed): when features were extracted, clustering failed and   *)
(* intent scoring gave a prediction, the result keeps the features and the *)
(* prediction, and its cluster assignment is empty.                        *)
C14_FailedBranchAbsent ==
    \A r \in Requests :
        ( /\ Done(r)
          /\ rq[r].calls.predict_cluster = 1
          /\ rq[r].calls.predict_intent_scores = 1
          /\ rq[r].ml_results.cluster = ClusterError
          /\ rq[r].ml_results.intent_scores = PredictionResult ) =>
            /\ rq[r].result.features_extracted = rq[r].ml_results.features
            /\ rq[r].result.intent_scores = PredictionResult
            /\ rq[r].result.cluster_assignment = EmptyDict

(* The request is in flight and no step of it can be taken. *)
Blocked(r) == InFlight(r) /\ ~ENABLED RequestStep(r)

(* C15 (as claimed): when predict_cluster hangs and predict_intent_scores  *)
(* has returned a prediction (or the other way round), the scoring step    *)
(* is not held up: the request can go on.                                  *)
C15_HungScorerAbandoned ==
    \A r \in Requests :
        ( \/ /\ rq[r].hung = "predict_cluster"
             /\ rq[r].calls.predict_intent_scores = 1
          \/ /\ rq[r].hung = "predict_intent_scores"
             /\ rq[r].calls.predict_cluster = 1 ) =>
            ~Blocked(r)

(* C16 (as claimed): a request in flight is never left without a next      *)
(* step, also when one of the calls it waits for never returns.            *)
C16_NeverBlocked ==
    \A r \in Requests : rq[r].hung # "none" => ~Blocked(r)

(* C17 (as claimed): provisioning is looked into and started only for a    *)
(* tenant whose status is trial, and a request whose provisioning tasks    *)
(* never finish can still go on to its response.                           *)
C17_ProvisioningNotAwaited ==
    \A r \in Requests :
        /\ (rq[r].pc \in {"provision", "provisioning"} \/ rq[r].calls.provision > 0) =>
              (rq[r].api_key_info.status = TRIAL /\ Item(r).status = "trial")
        /\ rq[r].hung = "provisioning" => ~Blocked(r)

(* Request r looked for models of a tenant that has none in the clusters   *)
(* table, so it started the provisioning tasks.                            *)
ProvisioningStarted(r) ==
    rq[r].calls.provision = 1 /\ rq[r].api_key \notin clusters_table

(* C18 (as claimed), for requests run one after another: the provisioning  *)
(* tasks are started at most once per tenant.                              *)
C18_ProvisionedOnce ==
    ~overlapped =>
        \A k \in ApiKeys :
            Cardinality({r \in Requests :
                            rq[r].api_key = k /\ ProvisioningStarted(r)}) <= 1

(* put_record of request r raised. *)
AppendFailed(r) == rq[r].calls.put_record = 1 /\ ~Appended(r)

(* C19: a request whose put_record raised goes on to session caching, the  *)
(* ML pipeline and the metrics update, and ends with success=true and the  *)
(* enrichment the pipeline gave.                                           *)
C19_AppendFailureTolerated ==
    \A r \in Requests :
        AppendFailed(r) =>
            /\ rq[r].pc \in {"session", "features", "scorers", "metrics", "done"}
            /\ PastSessionCaching(r) => rq[r].calls.cache_session = 1
            /\ Done(r) =>
                  /\ rq[r].result.success
                  /\ rq[r].result.error = NoError
                  /\ rq[r].calls.extract_features = 1
                  /\ rq[r].calls.update_metrics = 1
                  /\ rq[r].result.features_extracted = rq[r].ml_results.features
                  /\ rq[r].result.cluster_assignment = rq[r].ml_results.cluster
                  /\ rq[r].result.intent_scores = rq[r].ml_results.intent_scores

C19_Witness ==
    \E r \in Requests :
        /\ AppendFailed(r)
        /\ Done(r) /\ rq[r].result.success
        /\ rq[r].result.features_extracted = Features
        /\ rq[r].result.cluster_assignment = ClusterAssignment
        /\ rq[r].calls.cache_session = 1

(* C20: a request ends with success=false only with the auth reason or the *)
(* rate-limit reason, and then none of the later steps was entered; a      *)
(* request the rate-limit check admitted ends with success=true, whatever  *)
(* failed in the append, session caching, scoring, the metrics update or   *)
(* provisioning, and its result carries what the ML pipeline gave.         *)
C20_OnlyAuthAndRateLimitFail ==
    \A r \in Requests :
        Done(r) =>
            /\ ~rq[r].result.success =>
                  \/ AuthRejected(r) /\ NothingAfterValidation(r)
                  \/ RateLimitRejected(r) /\ NothingAfterRateLimit(r)
            /\ (RateChecked(r) /\ rq[r].rate_check.admitted) =>
                  /\ rq[r].result.success
                  /\ rq[r].result.features_extracted = rq[r].ml_results.features
                  /\ rq[r].result.cluster_assignment = rq[r].ml_results.cluster
                  /\ rq[r].result.intent_scores = rq[r].ml_results.intent_scores

C20_Witness ==
    \E r, q \in Requests :
        /\ AuthRejected(q)
        /\ Done(r) /\ rq[r].result.success
        /\ Item(r).status = "trial"
        /\ AppendFailed(r)
        /\ cache_failed
        /\ rq[r].ml_results.cluster = ClusterError
        /\ rq[r].result.real_time_metrics = EmptyDict

(* process_event ended by raising instead of returning a result. *)
Faulted(r) == rq[r].pc = "raised"

(* C21: a request the rate-limit check admitted never ends by raising; an  *)
(* exception that reaches the boundary after admission gives a result with *)
(* success=false, an error description, the elapsed time and the           *)
(* enrichment the pipeline had gathered.                                   *)
C21_BoundaryReturnsFailedResult ==
    \A r \in Requests :
        (RateChecked(r) /\ rq[r].rate_check.admitted) =>
            /\ ~Faulted(r)
            /\ (Done(r) /\ ~rq[r].result.success) =>
                  /\ rq[r].result.error # NoError
                  /\ rq[r].result.processing_time_ms = ProcessingTime(rq[r].calls)
                  /\ rq[r].result.features_extracted =
                        Get(rq[r].ml_results, "features", EmptyDict)
                  /\ rq[r].result.cluster_assignment =
                        Get(rq[r].ml_results, "cluster", EmptyDict)
                  /\ rq[r].result.intent_scores =
                        Get(rq[r].ml_results, "intent_scores", EmptyDict)

(* C22: no process_event call ends by raising, and the result of every     *)
(* call that returned reports the time that passed since the request       *)
(* started.                                                                *)
C22_AlwaysResultWithElapsedTime ==
    \A r \in Requests :
        /\ ~Faulted(r)
        /\ Done(r) =>
              rq[r].result.processing_time_ms = ProcessingTime(rq[r].calls)

(* The key of request r is unknown, or its tenant is neither active nor    *)
(* trial.                                                                  *)
NoValidTenant(r) == rq[r].pc # "idle" /\ ~ActiveOrTrialTenant(r)

(* The result carries no enrichment. *)
EmptyEnrichment(result) ==
    /\ result.features_extracted = EmptyDict
    /\ result.cluster_assignment = EmptyDict
    /\ result.intent_scores = EmptyDict
    /\ result.real_time_metrics = EmptyDict

(* A step of a request without a valid tenant leaves the validation cache, *)
(* the session cache, the metrics counters, the stream and the model items *)
(* as they were.                                                           *)
NoValidTenantStepChangesNothing ==
    \A r \in Requests :
        (NoValidTenant(r) /\ rq'[r] # rq[r]) =>
            UNCHANGED <<cache_validation, cache_sessions, cache_metrics,
                        kinesis_stream, clusters_table, api_keys_table>>

Aggregated(k) ==
    {r \in Requests : rq[r].api_key = k /\ rq[r].calls.update_metrics = 1}

(* C24: when the requests of one tenant overlapped and no cache invocation *)
(* failed, the tenant's total_events counter holds the number of its       *)
(* requests that went through metrics aggregation.                         *)
C24_EveryAggregationCounted ==
    \A k \in ApiKeys :
        (overlapped /\ ~cache_failed /\ Cardinality(Aggregated(k)) = MaxRequests) =>
            Get(cache_metrics[k], TotalEvents, 0) = Cardinality(Aggregated(k))

(* create_api_key call c returned an API key. *)
KeyReturned(c) == cr[c].pc = "done" /\ "api_key" \in DOMAIN cr[c].result

(* create_api_key call c returned the error dict. *)
ErrorReturned(c) == cr[c].pc = "done" /\ "error" \in DOMAIN cr[c].result

(* The item call c handed to put_item. *)
PutOf(c) == ItemOf(cr[c].api_key_info)

(* C25: a create_api_key call that returned a key put a tenant item under  *)
(* that key and returned a dict, both with the rate limit and the features *)
(* of the plan configuration of its plan_type; the item's status is trial  *)
(* when plan_type is 'trial' and active otherwise; for 'trial' the rate    *)
(* limit and the features are the trial plan's.                            *)
C25_CreatedTenantFollowsPlan ==
    \A c \in Creates :
        KeyReturned(c) =>
            LET plan_config == GetPlanConfiguration(cr[c].plan_type)
                result == cr[c].result
            IN  /\ cr[c].put = "ok"
                /\ api_keys_table[result.api_key] # NoItem
                /\ PutOf(c).pk = result.api_key
                /\ PutOf(c).gsi1pk = cr[c].customer_id
                /\ PutOf(c).plan_type = cr[c].plan_type
                /\ result.plan_type = cr[c].plan_type
                /\ result.rate_limit = plan_config.rate_limit
                /\ result.features_enabled = plan_config.features
                /\ PutOf(c).rate_limit = plan_config.rate_limit
                /\ PutOf(c).features_enabled = plan_config.features
                /\ PutOf(c).status = (IF cr[c].plan_type = "trial"
                                      THEN "trial" ELSE "active")
                /\ cr[c].plan_type = "trial" =>
                      /\ result.rate_limit = 1000
                      /\ result.features_enabled = {"basic_analytics", "intent_scoring"}
                      /\ PutOf(c).status = "trial"

(* One call created a trial tenant, another a tenant of a paid plan, and   *)
(* each is in the table as it was put.                                     *)
C25_Witness ==
    \E c, d \in Creates :
        /\ KeyReturned(c) /\ cr[c].plan_type = "trial"
        /\ api_keys_table[cr[c].result.api_key] = PutOf(c)
        /\ api_keys_table[cr[c].result.api_key].status = "trial"
        /\ KeyReturned(d) /\ cr[d].plan_type = "pro"
        /\ api_keys_table[cr[d].result.api_key] = PutOf(d)
        /\ api_keys_table[cr[d].result.api_key].status = "active"
        /\ cr[d].result.rate_limit = 100000

(* A tenant item with all its attributes, stored under key k. *)
CompleteRecord(item, k) ==
    /\ item # NoItem
    /\ DOMAIN item = {"pk", "gsi1pk", "status", "plan_type", "rate_limit",
                      "features_enabled"}
    /\ item.pk = k
    /\ item.status \in StatusValues

(* A call whose put_item raised leaves the table as it was. *)
FailedPutWritesNothing ==
    \A c \in Creates :
        (cr[c].pc = "idle" /\ cr'[c].put = "raise") => UNCHANGED api_keys_table

(* C26: a create_api_key call whose put_item failed returns the error and  *)
(* no API key, and wrote no item; a call that returned an API key has a    *)
(* complete tenant item under that key in the table.                       *)
C26_NoPartialTenant ==
    /\ [](\A c \in Creates :
            /\ (cr[c].pc = "done" /\ cr[c].put = "raise") =>
                  (ErrorReturned(c) /\ ~KeyReturned(c))
            /\ KeyReturned(c) =>
                  CompleteRecord(api_keys_table[cr[c].result.api_key],
                                 cr[c].result.api_key))
    /\ [][FailedPutWritesNothing]_vars

(* One call failed in put_item and there is no item under its key, another *)
(* returned its key.                                                       *)
C26_Witness ==
    \E c, d \in Creates :
        /\ ErrorReturned(c) /\ cr[c].put = "raise"
        /\ api_keys_table[cr[c].api_key_info.api_key] = NoItem
        /\ KeyReturned(d)

(* C27: the keys two create_api_key calls returned differ, and the item    *)
(* under a returned key is the one its call put.                           *)
C27_ReturnedKeysAreFresh ==
    \A c, d \in Creates :
        (c # d /\ KeyReturned(c) /\ KeyReturned(d)) =>
            /\ cr[c].result.api_key # cr[d].result.api_key
            /\ api_keys_table[cr[c].result.api_key] = PutOf(c)

(* The place of request r's record on the stream; 0 when it has none. *)
StreamIndex(r) ==
    IF Appended(r)
    THEN CHOOSE i \in 1..Len(kinesis_stream) : kinesis_stream[i].request = r
    ELSE 0

SameUser(r, q) ==
    /\ rq[r].api_key = rq[q].api_key
    /\ Get(rq[r].event_data, "anonId", "unknown") = Get(rq[q].event_data, "anonId", "unknown")

(* C28: the records of two requests with the same api key and anonId have  *)
(* the same partition key, and when the second request was submitted after *)
(* the first had returned, its record comes later on the stream.           *)
C28_SameUserSamePartitionInOrder ==
    \A r, q \in Requests :
        (Appended(r) /\ Appended(q) /\ SameUser(r, q)) =>
            /\ kinesis_stream[StreamIndex(r)].PartitionKey =
                  kinesis_stream[StreamIndex(q)].PartitionKey
            /\ (~overlapped /\ r < q) => StreamIndex(r) < StreamIndex(q)

(* Two requests of one user, one after the other, both have their record   *)
(* on the stream.                                                          *)
C28_Witness ==
    \E r, q \in Requests :
        /\ r < q /\ ~overlapped
        /\ SameUser(r, q)
        /\ StreamIndex(r) = 1 /\ StreamIndex(q) = 2

(* C29: a tenant's counter holds no more than the number of that tenant's  *)
(* own requests that went through metrics aggregation; what a rate-limit   *)
(* check reads is that count of the tenant's other requests at most; and   *)
(* two checks that read the same count against the same limit with the     *)
(* same outcome of the read decide the same.                               *)
C29_NoCrossTenantSharing ==
    /\ \A k \in ApiKeys :
          Get(cache_metrics[k], TotalEvents, 0) <= Cardinality(Aggregated(k))
    /\ \A r \in Requests :
          RateChecked(r) =>
              rq[r].rate_check.event_count
                  <= Cardinality(Aggregated(rq[r].api_key) \ {r})
    /\ \A r, q \in Requests :
          ( /\ RateChecked(r) /\ RateChecked(q)
            /\ rq[r].rate_check.event_count = rq[q].rate_check.event_count
            /\ rq[r].rate_check.outcome = rq[q].rate_check.outcome
            /\ rq[r].api_key_info.rate_limit = rq[q].api_key_info.rate_limit )
              => rq[r].rate_check.admitted = rq[q].rate_check.admitted

(* One tenant's counter has reached its limit; then a request of another   *)
(* tenant read its own counter as 0 and was admitted.                      *)
C29_Witness ==
    \E r, q \in Requests :
        /\ q < r /\ ~overlapped
        /\ rq[q].api_key # rq[r].api_key
        /\ Done(q) /\ KnownKey(q)
        /\ Get(cache_metrics[rq[q].api_key], TotalEvents, 0) >= Item(q).rate_limit
        /\ RateChecked(r)
        /\ rq[r].rate_check.outcome = "ok"
        /\ rq[r].rate_check.event_count = 0
        /\ rq[r].rate_check.admitted

(* C30: provisioning of a request is not entered before the request's      *)
(* put_record and its metrics update.                                      *)
C30_ProvisioningAfterAggregation ==
    \A r \in Requests :
        rq[r].calls.provision > 0 =>
            /\ rq[r].calls.put_record = 1
            /\ rq[r].calls.update_metrics = 1

(* Request r missed the cache, read its tenant's item and handed the       *)
(* record to the cache.                                                    *)
ResolvedFromStore(r) ==
    /\ KnownKey(r)
    /\ rq[r].get_item = "ok"
    /\ rq[r].calls.cache_api_key = 1

(* C31: when two overlapping requests of one existing key both missed the  *)
(* cache and every cache invocation succeeded, both resolved the tenant's  *)
(* record as the table holds it, and the validation cache holds that       *)
(* record afterwards.                                                      *)
C31_RaceOnMissPopulatesCache ==
    \A r, q \in Requests :
        ( /\ r # q /\ overlapped /\ ~cache_failed
          /\ ResolvedFromStore(r) /\ ResolvedFromStore(q)
          /\ rq[r].api_key = rq[q].api_key ) =>
            /\ rq[r].api_key_info = APIKeyInfoFromItem(Item(r))
            /\ rq[q].api_key_info = APIKeyInfoFromItem(Item(r))
            /\ cache_validation[rq[r].api_key] # Miss

(* The key of read call d is unknown, or its tenant is neither active nor  *)
(* trial.                                                                  *)
ReadWithoutValidTenant(d) ==
    /\ rd[d].pc # "idle"
    /\ \/ api_keys_table[rd[d].api_key] = NoItem
       \/ api_keys_table[rd[d].api_key].status \notin {"active", "trial"}

(* C32: a read call whose key is unknown or whose tenant is inactive or    *)
(* suspended invokes none of its collaborators and returns an error.       *)
C32_ReadPathsRejectInvalidTenant ==
    \A d \in Reads :
        ReadWithoutValidTenant(d) =>
            /\ rd[d].collaborators = {}
            /\ rd[d].pc = "done" => "error" \in DOMAIN rd[d].result

(* Scoring gave request r a cluster assignment and intent scores. *)
FullyScored(r) ==
    /\ Done(r) /\ rq[r].result.success
    /\ Get(rq[r].result.cluster_assignment, "cluster_id", "") # ""
    /\ rq[r].result.intent_scores # EmptyDict

(* C33: the metrics of a request that has a cluster assignment and intent  *)
(* scores count the event, its platform, its cluster and one intent, and   *)
(* the update was sent: with every cache invocation succeeding the         *)
(* tenant's counters hold it.                                              *)
C33_ClusterAndIntentCounted ==
    \A r \in Requests :
        FullyScored(r) =>
            LET metrics == rq[r].result.real_time_metrics
                cluster == <<"cluster", rq[r].result.cluster_assignment.cluster_id>>
            IN  /\ Get(metrics, TotalEvents, 0) = 1
                /\ Get(metrics, <<"platform", rq[r].event_data.platform>>, 0) = 1
                /\ Get(metrics, cluster, 0) = 1
                /\ \E d \in DOMAIN metrics : d[1] = "intent" /\ metrics[d] = 1
                /\ ~cache_failed =>
                      Get(cache_metrics[rq[r].api_key], cluster, 0) >= 1

(* C34: when every cache invocation succeeded and no request is in flight, *)
(* each tenant's total_events counter equals the number of its requests    *)
(* that were admitted and completed.                                       *)
C34_TotalEventsCountsAdmitted ==
    (~cache_failed /\ \A r \in Requests : ~InFlight(r)) =>
        \A k \in ApiKeys :
            Get(cache_metrics[k], TotalEvents, 0) =
                Cardinality({r \in Requests :
                                /\ rq[r].api_key = k
                                /\ Done(r) /\ rq[r].result.success})

(* The requests the rate-limit check admitted. *)
Admitted == {r \in Requests : RateChecked(r) /\ rq[r].rate_check.admitted}

RecordsOf(r) == {i \in 1..Len(kinesis_stream) : kinesis_stream[i].request = r}

(* The admitted requests whose body is a dict. *)
AdmittedWithDict == {r \in Admitted : IsDict(rq[r].event_data)}

NoAppendFailedOrPending ==
    \A r \in Requests : ~AppendFailed(r) /\ ~InFlight(r)

RespondedAfterMetrics(r) ==
    Done(r) /\ rq[r].result.success /\ rq[r].calls.update_metrics = 1

(* C37: a request in flight always has a next step; a call that has ended  *)
(* ended with the auth rejection, the rate-limit rejection or a response   *)
(* made after the metrics step; and no step of a request was taken twice.  *)
C37_EndsInOneOfThreeOutcomes ==
    \A r \in Requests :
        /\ ~Blocked(r)
        /\ \A c \in DOMAIN rq[r].calls : rq[r].calls[c] <= 1
        /\ (rq[r].pc # "idle" /\ ~InFlight(r)) =>
              \/ AuthRejected(r)
              \/ RateLimitRejected(r)
              \/ RespondedAfterMetrics(r)

(* The item carries the rate limit and the features of the trial plan. *)
HasTrialLimits(item) ==
    /\ item.rate_limit = GetPlanConfiguration("trial").rate_limit
    /\ item.features_enabled = GetPlanConfiguration("trial").features

(* C38: an item that create_api_key stored carries the trial plan's rate   *)
(* limit and features exactly when its status is trial.                    *)
C38_TrialLimitsIffTrialStatus ==
    \A k \in GeneratedKeys :
        api_keys_table[k] # NoItem =>
            (HasTrialLimits(api_keys_table[k]) <=> api_keys_table[k].status = "trial")

(* Validation of request r returned the record rebuilt from the cache. *)
ResolvedFromCache(r) ==
    /\ rq[r].calls.validate_cache = 1
    /\ rq[r].calls.get_item = 0
    /\ rq[r].api_key_info # None

----------------------------------------------------------------------------
(* lambda_handler's responses *)

Answered(h) == hd[h].pc = "done"

StatusCode(h) == hd[h].response.statusCode

(* The two routes that answer 401 to a request without an x-api-key. *)
KeyRequired(event) ==
    \/ event.path = "/v1/events" /\ event.httpMethod = "POST"
    \/ event.path = "/v1/dashboard" /\ event.httpMethod = "GET"

NoApiKey(event) == "x-api-key" \notin DOMAIN event.headers

KnownRoute(event) ==
    \/ KeyRequired(event)
    \/ event.path = "/v1/insights" /\ event.httpMethod = "GET"

(* process_event was called for invocation h and returned a result. *)
ProcessEventReturned(h) ==
    hd[h].op = "process_event" /\ rq[hd[h].request].pc = "done"

(* The status follows the result's success flag. *)
StatusFollowsSuccess(h) ==
    /\ StatusCode(h) = 200 <=> rq[hd[h].request].result.success
    /\ StatusCode(h) = 400 <=> ~rq[hd[h].request].result.success

(* C39: lambda_handler always answers with a status and never raises. A    *)
(* POST /v1/events or GET /v1/dashboard without an x-api-key header is     *)
(* answered 401 without a call of the service; a POST /v1/events for       *)
(* which process_event returned is answered 200 exactly when the result    *)
(* has success=true and 400 otherwise; an unknown path or method is        *)
(* answered 404; an exception is answered 500.                             *)
C39_HandlerMapsOutcomes ==
    \A h \in Invocations :
        Answered(h) =>
            /\ StatusCode(h) \in {200, 400, 401, 404, 500}
            /\ (KeyRequired(hd[h].event) /\ NoApiKey(hd[h].event)) =>
                   (StatusCode(h) = 401 /\ hd[h].op = "none")
            /\ ProcessEventReturned(h) => StatusFollowsSuccess(h)
            /\ ~KnownRoute(hd[h].event) => StatusCode(h) = 404
            /\ hd[h].exception => StatusCode(h) = 500

(* What lambda_handler does keep: the same mapping, the 401 being given    *)
(* when line 867 parsed the body and the event has a headers dict, and a   *)
(* request without a key never reaching the service.                       *)
HandlerMapsParsedRequests ==
    \A h \in Invocations :
        Answered(h) =>
            /\ StatusCode(h) \in {200, 400, 401, 404, 500}
            /\ (KeyRequired(hd[h].event) /\ NoApiKey(hd[h].event)) =>
                   /\ hd[h].op = "none"
                   /\ StatusCode(h) = 401 <=>
                          /\ hd[h].event.headers # None
                          /\ \/ hd[h].event.path = "/v1/dashboard"
                             \/ Parses(hd[h].event.body)
                   /\ StatusCode(h) \in {401, 500}
            /\ ProcessEventReturned(h) => StatusFollowsSuccess(h)
            /\ ~KnownRoute(hd[h].event) => StatusCode(h) = 404
            /\ hd[h].exception => StatusCode(h) = 500

====
